---- MODULE Spec2Model ----
(***************************************************************************)
(* Model of paddle/fluid/distributed/auto_parallel/spmd_rules/common.cc:   *)
(* the sharding-merge helpers shared by the SPMD rules.                    *)
(*                                                                         *)
(* A std::string is a sequence of one-character labels, a std::vector a    *)
(* sequence, a std::unordered_map a function whose DOMAIN is its key set.  *)
(* Iterating an unordered_map visits its entries in an order the program   *)
(* does not control: the loops over one are modelled one entry per step,   *)
(* the entry chosen nondeterministically among those not yet visited.      *)
(***************************************************************************)
EXTENDS Integers, Sequences, FiniteSets, TLC

VARIABLES
  call,                          \* the function being executed
  pc,                            \* position: caller / start / merge / resolute / partial / done / thrown
  tensor_notation_to_dim_pairs,  \* argument of ShardingMergeForTensors
  pos,                           \* next (tensor, i) position of the nested loops, as an index
  axis_to_dim_map,               \* local of ShardingMergeForTensors, its return value
  dim_to_axis_map,               \* local of ShardingMergeForTensors
  visited,                       \* keys of dim_to_axis_map the second loop has visited
  axis, mesh_dim1, mesh_dim2,    \* arguments of ShardingMergeForAxis
  ret_dim,                       \* return value of ShardingMergeForAxis
  exception,                     \* the exception in flight once pc = "thrown"
  src_dist_attr,                 \* argument of CopyTensorDistAttrForOutput
  new_dist_attr,                 \* its return value
  in_axis_to_dim_map, out_axis,  \* arguments of ResoluteOutputPartialDimension
  partial_on_dims,               \* its local and return value
  iterated                       \* keys of in_axis_to_dim_map its loop has visited

vars == <<call, pc, tensor_notation_to_dim_pairs, pos, axis_to_dim_map,
          dim_to_axis_map, visited, axis, mesh_dim1, mesh_dim2, ret_dim,
          exception, src_dist_attr, new_dist_attr, in_axis_to_dim_map,
          out_axis, partial_on_dims, iterated>>

---------------------------------------------------------------------------
(* Bounds of the model *)

\* Size of an input of ShardingMergeForTensors: every tensor counts for its
\* rank, a rank-0 tensor for one.  Also the longest output notation.
MaxAxes == 3

\* Number of dimensions of the device mesh: mesh dimensions are 0 .. NumMeshDims-1.
NumMeshDims == 2

\* The sentinel of a replicated axis.
Replicated == -1

AxisLabels == {"i", "j", "k"}

MeshDims == {Replicated} \cup (0 .. NumMeshDims - 1)

---------------------------------------------------------------------------
(* Values *)

EmptyMap == [x \in {} |-> Replicated]

\* std::unordered_map::insert: no effect when the key is already present.
MapInsert(m, k, v) ==
  IF k \in DOMAIN m THEN m
  ELSE [x \in DOMAIN m \cup {k} |-> IF x = k THEN v ELSE m[x]]

\* std::unordered_map::operator[] used as an assignment target.
MapAssign(m, k, v) ==
  [x \in DOMAIN m \cup {k} |-> IF x = k THEN v ELSE m[x]]

NoError == [code |-> "OK", axis |-> "", dims |-> <<>>]

\* phi::errors::Unimplemented("Tensor Axis[%s] is Sharded by two different
\* mesh dimension [%d] and [%d].", axis, mesh_dim1, mesh_dim2)
UnimplementedError(a, d1, d2) ==
  [code |-> "Unimplemented", axis |-> a, dims |-> <<d1, d2>>]

---------------------------------------------------------------------------
(* ShardingMergeForAxis *)

\* Faulty variant: the replicated first argument wins over a sharded second one.
ShardingMergeForAxis_KeepFirst(a, d1, d2) ==
  IF d1 # d2
    THEN IF d2 = Replicated \/ d1 = Replicated
           THEN [threw |-> FALSE, value |-> d1, error |-> NoError]
           ELSE [threw |-> TRUE, value |-> Replicated,
                 error |-> UnimplementedError(a, d1, d2)]
    ELSE [threw |-> FALSE, value |-> d1, error |-> NoError]

\* Faulty variant: two different concrete dimensions are resolved by picking the first.
ShardingMergeForAxis_PickFirst(a, d1, d2) ==
  IF d1 # d2
    THEN IF d1 = Replicated
           THEN [threw |-> FALSE, value |-> d2, error |-> NoError]
           ELSE [threw |-> FALSE, value |-> d1, error |-> NoError]
    ELSE [threw |-> FALSE, value |-> d1, error |-> NoError]

ShardingMergeForAxis(a, d1, d2) ==
  IF d1 # d2
    THEN IF d1 = Replicated
           THEN [threw |-> FALSE, value |-> d2, error |-> NoError]
           ELSE IF d2 = Replicated
                  THEN [threw |-> FALSE, value |-> d1, error |-> NoError]
                  ELSE [threw |-> TRUE, value |-> Replicated,
                        error |-> UnimplementedError(a, d1, d2)]
    ELSE [threw |-> FALSE, value |-> d1, error |-> NoError]

---------------------------------------------------------------------------
(* ShardingMergeForTensors *)

\* The (tensor_axis, mesh_dim) pairs in the order the nested loops of
\* ShardingMergeForTensors read them: tensor by tensor, position by position.
RECURSIVE AxisSequence(_)
AxisSequence(pairs) ==
  IF pairs = <<>> THEN <<>>
  ELSE LET pair == Head(pairs)
       IN  [i \in 1 .. Len(pair[2]) |-> <<pair[1][i], pair[2][i]>>]
             \o AxisSequence(Tail(pairs))

\* The body of the inner loop for one position: the merged dimension of the
\* axis, the insert into axis_to_dim_map and the append to dim_to_axis_map.
\* maps = <<axis_to_dim_map, dim_to_axis_map>>.
MergeAxis(maps, tensor_axis, mesh_dim) ==
  LET a2d == maps[1]
      d2a == maps[2]
      merged == IF tensor_axis \notin DOMAIN a2d
                  THEN [threw |-> FALSE, value |-> mesh_dim, error |-> NoError]
                  ELSE ShardingMergeForAxis(tensor_axis, mesh_dim, a2d[tensor_axis])
      merge_dim == merged.value
  IN  IF merged.threw
        THEN [threw |-> TRUE, error |-> merged.error, maps |-> maps]
        ELSE [threw |-> FALSE, error |-> NoError,
              maps  |-> << MapInsert(a2d, tensor_axis, merge_dim),
                           IF merge_dim \notin DOMAIN d2a
                             THEN MapInsert(d2a, merge_dim, <<tensor_axis>>)
                             ELSE MapAssign(d2a, merge_dim,
                                            Append(d2a[merge_dim], tensor_axis)) >>]

\* The labels the second loop demotes for one entry of dim_to_axis_map:
\* it.second[1], it.second[2], ... (0-based), i.e. all but the first.
RECURSIVE DemoteAll(_, _)
DemoteAll(a2d, labels) ==
  IF labels = <<>> THEN a2d
  ELSE DemoteAll(MapAssign(a2d, Head(labels), Replicated), Tail(labels))

\* Faulty variant: the demotion loop starts one position too late.
ResoluteEntry_SkipSecond(a2d, it) ==
  IF Len(it[2]) > 2 THEN DemoteAll(a2d, Tail(Tail(it[2]))) ELSE a2d

\* Faulty variant: besides demoting the others, the picked axis is given the dimension.
ResoluteEntry_RestorePicked(a2d, it) ==
  MapAssign(DemoteAll(a2d, Tail(it[2])), it[2][1], it[1])

\* The body of the second loop for one entry it = <<mesh_dim, axes>> of
\* dim_to_axis_map.
ResoluteEntry(a2d, it) ==
  IF Len(it[2]) > 1 THEN DemoteAll(a2d, Tail(it[2])) ELSE a2d

\* The whole second loop, its entries visited in ascending key order.
RECURSIVE ResoluteInOrder(_, _, _)
ResoluteInOrder(a2d, d2a, keys) ==
  IF keys = {} THEN a2d
  ELSE LET d == CHOOSE x \in keys : \A y \in keys : x <= y
       IN  ResoluteInOrder(ResoluteEntry(a2d, <<d, d2a[d]>>), d2a, keys \ {d})

\* The whole first loop from the given maps, stopping at the first throw.
RECURSIVE MergeAll(_, _)
MergeAll(maps, axes) ==
  IF axes = <<>> THEN [threw |-> FALSE, error |-> NoError, maps |-> maps]
  ELSE LET r == MergeAxis(maps, Head(axes)[1], Head(axes)[2])
       IN  IF r.threw THEN r ELSE MergeAll(r.maps, Tail(axes))

\* ShardingMergeForTensors as a function of its argument, the second loop
\* taken in ascending key order.
ShardingMergeForTensors(pairs) ==
  LET r == MergeAll(<<EmptyMap, EmptyMap>>, AxisSequence(pairs))
  IN  IF r.threw
        THEN [threw |-> TRUE, error |-> r.error, value |-> EmptyMap]
        ELSE [threw |-> FALSE, error |-> NoError,
              value |-> ResoluteInOrder(r.maps[1], r.maps[2], DOMAIN r.maps[2])]

---------------------------------------------------------------------------
(* CopyTensorDistAttrForOutput *)

\* TensorDistAttr(): the fields of a default-constructed descriptor.
DefaultTensorDistAttr ==
  [process_mesh |-> "", dims_mapping |-> <<>>, batch_dim |-> 0,
   dynamic_dims |-> <<>>, annotated |-> FALSE]

\* Faulty variant: the annotated flag is copied with the other fields.
CopyTensorDistAttrForOutput_CopyAnnotated(src) ==
  [DefaultTensorDistAttr EXCEPT !.process_mesh = src.process_mesh,
                                !.batch_dim = src.batch_dim,
                                !.dynamic_dims = src.dynamic_dims,
                                !.annotated = src.annotated]

\* Each set_x(v) stores v in field x of the new descriptor.
CopyTensorDistAttrForOutput(src) ==
  [DefaultTensorDistAttr EXCEPT !.process_mesh = src.process_mesh,
                                !.batch_dim = src.batch_dim,
                                !.dynamic_dims = src.dynamic_dims,
                                !.annotated = FALSE]

---------------------------------------------------------------------------
(* ResoluteOutputPartialDimension *)

\* out_axis.find(label) != std::string::npos
Find(out, label) == \E p \in 1 .. Len(out) : out[p] = label

\* The body of the loop for one entry it = <<label, mesh_dim>> of
\* in_axis_to_dim_map.
PartialEntry(dims, out, it) ==
  IF Find(out, it[1])
    THEN IF it[2] > -1 THEN Append(dims, it[2]) ELSE dims
    ELSE dims

---------------------------------------------------------------------------
(* Inputs *)

Strings(n) == UNION {[1 .. r -> AxisLabels] : r \in 0 .. n}

TensorsOfRank(r) ==
  {<<notation, dims>> : notation \in [1 .. r -> AxisLabels],
                        dims \in [1 .. r -> MeshDims]}

\* The size of an input: a tensor counts for its rank, a rank-0 tensor for one.
RECURSIVE InputSize(_)
InputSize(pairs) ==
  IF pairs = <<>> THEN 0
  ELSE (IF Len(Head(pairs)[2]) = 0 THEN 1 ELSE Len(Head(pairs)[2]))
         + InputSize(Tail(pairs))

AxisToDimMaps == UNION {[S -> MeshDims] : S \in SUBSET AxisLabels}

TensorDistAttrs ==
  [process_mesh : {"M", "N"},
   dims_mapping : {<<>>, <<0, Replicated>>},
   batch_dim    : 0 .. NumMeshDims,
   dynamic_dims : {<<>>, <<FALSE, TRUE>>},
   annotated    : BOOLEAN]

---------------------------------------------------------------------------
(* The state machine: one call of one of the four functions *)

MergeIdle ==
  /\ tensor_notation_to_dim_pairs = <<>>
  /\ pos = 1
  /\ axis_to_dim_map = EmptyMap
  /\ dim_to_axis_map = EmptyMap
  /\ visited = {}

AxisIdle ==
  /\ axis = ""
  /\ mesh_dim1 = Replicated
  /\ mesh_dim2 = Replicated
  /\ ret_dim = Replicated

CopyIdle ==
  /\ src_dist_attr = DefaultTensorDistAttr
  /\ new_dist_attr = DefaultTensorDistAttr

PartialIdle ==
  /\ in_axis_to_dim_map = EmptyMap
  /\ out_axis = <<>>
  /\ partial_on_dims = <<>>
  /\ iterated = {}

\* The caller of ShardingMergeForTensors starts from an empty vector of pairs.
InitShardingMergeForTensors ==
  /\ call = "ShardingMergeForTensors"
  /\ pc = "caller"
  /\ tensor_notation_to_dim_pairs = <<>>
  /\ pos = 1
  /\ axis_to_dim_map = EmptyMap
  /\ dim_to_axis_map = EmptyMap
  /\ visited = {}
  /\ exception = NoError
  /\ AxisIdle /\ CopyIdle /\ PartialIdle

InitShardingMergeForAxis ==
  /\ call = "ShardingMergeForAxis"
  /\ pc = "start"
  /\ axis \in AxisLabels
  /\ mesh_dim1 \in MeshDims
  /\ mesh_dim2 \in MeshDims
  /\ ret_dim = Replicated
  /\ exception = NoError
  /\ MergeIdle /\ CopyIdle /\ PartialIdle

InitCopyTensorDistAttrForOutput ==
  /\ call = "CopyTensorDistAttrForOutput"
  /\ pc = "start"
  /\ src_dist_attr \in TensorDistAttrs
  /\ new_dist_attr = DefaultTensorDistAttr
  /\ exception = NoError
  /\ MergeIdle /\ AxisIdle /\ PartialIdle

\* Entry of ResoluteOutputPartialDimension: partial_on_dims empty.
InitResoluteOutputPartialDimension ==
  /\ call = "ResoluteOutputPartialDimension"
  /\ pc = "partial"
  /\ in_axis_to_dim_map \in AxisToDimMaps
  /\ out_axis \in Strings(MaxAxes)
  /\ partial_on_dims = <<>>
  /\ iterated = {}
  /\ exception = NoError
  /\ MergeIdle /\ AxisIdle /\ CopyIdle

Init ==
  \/ InitShardingMergeForTensors
  \/ InitShardingMergeForAxis
  \/ InitCopyTensorDistAttrForOutput
  \/ InitResoluteOutputPartialDimension

AxisVars == <<axis, mesh_dim1, mesh_dim2, ret_dim>>
CopyVars == <<src_dist_attr, new_dist_attr>>
PartialVars == <<in_axis_to_dim_map, out_axis, partial_on_dims, iterated>>
MergeVars == <<tensor_notation_to_dim_pairs, pos, axis_to_dim_map,
               dim_to_axis_map, visited>>

\* The caller appends one tensor's (notation, dims_mapping) pair, of equal
\* lengths, to the argument.
CallerAppendTensor ==
  /\ call = "ShardingMergeForTensors" /\ pc = "caller"
  /\ \E r \in 0 .. MaxAxes - InputSize(tensor_notation_to_dim_pairs) :
       \E pair \in TensorsOfRank(r) :
         /\ InputSize(<<pair>>) <= MaxAxes - InputSize(tensor_notation_to_dim_pairs)
         /\ tensor_notation_to_dim_pairs' = Append(tensor_notation_to_dim_pairs, pair)
  /\ UNCHANGED <<call, pc, pos, axis_to_dim_map, dim_to_axis_map, visited,
                 exception, AxisVars, CopyVars, PartialVars>>

\* Entry of ShardingMergeForTensors: both maps empty, the first loop ahead.
EnterShardingMergeForTensors ==
  /\ call = "ShardingMergeForTensors" /\ pc = "caller"
  /\ pc' = "merge"
  /\ UNCHANGED <<call, MergeVars, exception, AxisVars, CopyVars, PartialVars>>

\* One iteration of the inner loop of ShardingMergeForTensors that completes.
MergeAxisStep ==
  /\ call = "ShardingMergeForTensors" /\ pc = "merge"
  /\ pos <= Len(AxisSequence(tensor_notation_to_dim_pairs))
  /\ LET cur == AxisSequence(tensor_notation_to_dim_pairs)[pos]
         r   == MergeAxis(<<axis_to_dim_map, dim_to_axis_map>>, cur[1], cur[2])
     IN  /\ ~r.threw
         /\ axis_to_dim_map' = r.maps[1]
         /\ dim_to_axis_map' = r.maps[2]
  /\ pos' = pos + 1
  /\ UNCHANGED <<call, pc, tensor_notation_to_dim_pairs, visited, exception,
                 AxisVars, CopyVars, PartialVars>>

\* One iteration in which ShardingMergeForAxis throws: the exception leaves
\* ShardingMergeForTensors, which returns nothing.
MergeAxisThrow ==
  /\ call = "ShardingMergeForTensors" /\ pc = "merge"
  /\ pos <= Len(AxisSequence(tensor_notation_to_dim_pairs))
  /\ LET cur == AxisSequence(tensor_notation_to_dim_pairs)[pos]
         r   == MergeAxis(<<axis_to_dim_map, dim_to_axis_map>>, cur[1], cur[2])
     IN  /\ r.threw
         /\ exception' = r.error
  /\ pc' = "thrown"
  /\ UNCHANGED <<call, MergeVars, AxisVars, CopyVars, PartialVars>>

\* The first loop ends.
MergeLoopExit ==
  /\ call = "ShardingMergeForTensors" /\ pc = "merge"
  /\ pos > Len(AxisSequence(tensor_notation_to_dim_pairs))
  /\ pc' = "resolute"
  /\ UNCHANGED <<call, MergeVars, exception, AxisVars, CopyVars, PartialVars>>

\* One iteration of the second loop, on an entry not yet visited.
ResoluteStep ==
  /\ call = "ShardingMergeForTensors" /\ pc = "resolute"
  /\ \E d \in DOMAIN dim_to_axis_map \ visited :
       /\ axis_to_dim_map' = ResoluteEntry(axis_to_dim_map, <<d, dim_to_axis_map[d]>>)
       /\ visited' = visited \cup {d}
  /\ UNCHANGED <<call, pc, tensor_notation_to_dim_pairs, pos, dim_to_axis_map,
                 exception, AxisVars, CopyVars, PartialVars>>

\* return axis_to_dim_map
ReturnMap ==
  /\ call = "ShardingMergeForTensors" /\ pc = "resolute"
  /\ visited = DOMAIN dim_to_axis_map
  /\ pc' = "done"
  /\ UNCHANGED <<call, MergeVars, exception, AxisVars, CopyVars, PartialVars>>

CallShardingMergeForAxis ==
  /\ call = "ShardingMergeForAxis" /\ pc = "start"
  /\ LET r == ShardingMergeForAxis(axis, mesh_dim1, mesh_dim2)
     IN  /\ ~r.threw
         /\ ret_dim' = r.value
  /\ pc' = "done"
  /\ UNCHANGED <<call, axis, mesh_dim1, mesh_dim2, exception,
                 MergeVars, CopyVars, PartialVars>>

ThrowShardingMergeForAxis ==
  /\ call = "ShardingMergeForAxis" /\ pc = "start"
  /\ LET r == ShardingMergeForAxis(axis, mesh_dim1, mesh_dim2)
     IN  /\ r.threw
         /\ exception' = r.error
  /\ pc' = "thrown"
  /\ UNCHANGED <<call, AxisVars, MergeVars, CopyVars, PartialVars>>

\* The source is passed by const reference.
CallCopyTensorDistAttrForOutput ==
  /\ call = "CopyTensorDistAttrForOutput" /\ pc = "start"
  /\ new_dist_attr' = CopyTensorDistAttrForOutput(src_dist_attr)
  /\ pc' = "done"
  /\ UNCHANGED <<call, src_dist_attr, exception, MergeVars, AxisVars, PartialVars>>

\* One iteration of the loop of ResoluteOutputPartialDimension.
PartialStep ==
  /\ call = "ResoluteOutputPartialDimension" /\ pc = "partial"
  /\ \E label \in DOMAIN in_axis_to_dim_map \ iterated :
       /\ partial_on_dims' =
            PartialEntry(partial_on_dims, out_axis, <<label, in_axis_to_dim_map[label]>>)
       /\ iterated' = iterated \cup {label}
  /\ UNCHANGED <<call, pc, in_axis_to_dim_map, out_axis, exception,
                 MergeVars, AxisVars, CopyVars>>

\* return partial_on_dims
ReturnPartial ==
  /\ call = "ResoluteOutputPartialDimension" /\ pc = "partial"
  /\ iterated = DOMAIN in_axis_to_dim_map
  /\ pc' = "done"
  /\ UNCHANGED <<call, PartialVars, exception, MergeVars, AxisVars, CopyVars>>

Next ==
  \/ CallerAppendTensor
  \/ EnterShardingMergeForTensors
  \/ MergeAxisStep
  \/ MergeAxisThrow
  \/ MergeLoopExit
  \/ ResoluteStep
  \/ ReturnMap
  \/ CallShardingMergeForAxis
  \/ ThrowShardingMergeForAxis
  \/ CallCopyTensorDistAttrForOutput
  \/ PartialStep
  \/ ReturnPartial

Spec == Init /\ [][Next]_vars

---------------------------------------------------------------------------
(* Vocabulary of the properties, in terms of the argument of                *)
(* ShardingMergeForTensors                                                  *)

Axes == AxisSequence(tensor_notation_to_dim_pairs)

LabelsOf == {Axes[p][1] : p \in 1 .. Len(Axes)}

\* The concrete mesh dimensions the input gives a label.
ConcreteDimsOf(label) ==
  {Axes[p][2] : p \in {q \in 1 .. Len(Axes) : Axes[q][1] = label}} \ {Replicated}

\* The labels the input gives the concrete dimension d.
Claimants(d) == {label \in LabelsOf : d \in ConcreteDimsOf(label)}

\* The label of the first position, in input order, whose dimension is d.
FirstClaimant(d) ==
  Axes[CHOOSE p \in 1 .. Len(Axes) :
         /\ Axes[p][2] = d
         /\ \A q \in 1 .. Len(Axes) : Axes[q][2] = d => p <= q][1]

\* Some label is given two different concrete dimensions.
LabelConflict == \E label \in LabelsOf : Cardinality(ConcreteDimsOf(label)) > 1

\* Some concrete dimension is given to two distinct labels.
DimCollision == \E d \in MeshDims \ {Replicated} : Cardinality(Claimants(d)) > 1

\* The fold of the pairwise merge rule over a label's occurrences.
Fold(label) ==
  IF ConcreteDimsOf(label) = {} THEN Replicated
  ELSE CHOOSE d \in ConcreteDimsOf(label) : TRUE

Returned == call = "ShardingMergeForTensors" /\ pc = "done"

---------------------------------------------------------------------------
(* Properties *)

\* C1: on an input with no label conflict and no dimension collision,
\* ShardingMergeForTensors returns the map sending each label of the input to
\* the fold of its occurrences: its concrete dimension if it has one, else -1.
C1_ReturnsFold ==
  (Returned /\ ~LabelConflict /\ ~DimCollision) =>
    /\ DOMAIN axis_to_dim_map = LabelsOf
    /\ \A label \in LabelsOf : axis_to_dim_map[label] = Fold(label)

\* C2: on an input with no label conflict the call does not throw, and for
\* every concrete dimension claimed by more than one label the first claimant
\* keeps it in the returned map and every other claimant maps to -1.
C2_FirstClaimantKeeps ==
  (call = "ShardingMergeForTensors" /\ pc \in {"done", "thrown"} /\ ~LabelConflict) =>
    /\ pc = "done"
    /\ \A d \in MeshDims \ {Replicated} :
         Cardinality(Claimants(d)) > 1 =>
           /\ axis_to_dim_map[FirstClaimant(d)] = d
           /\ \A label \in Claimants(d) \ {FirstClaimant(d)} :
                axis_to_dim_map[label] = Replicated

\* C3: in the returned map no two distinct labels have the same concrete
\* mesh dimension.
C3_OneLabelPerDim ==
  Returned =>
    \A l1 \in DOMAIN axis_to_dim_map : \A l2 \in DOMAIN axis_to_dim_map :
      (l1 # l2 /\ axis_to_dim_map[l1] > Replicated) =>
        axis_to_dim_map[l1] # axis_to_dim_map[l2]

\* C3 witness: a returned map in which one of two labels that claimed the
\* same dimension holds it and the other was demoted.
C3_Witness ==
  /\ Returned
  /\ \E d \in MeshDims \ {Replicated} : \E l1 \in Claimants(d) : \E l2 \in Claimants(d) :
       /\ l1 # l2
       /\ axis_to_dim_map[l1] = d
       /\ axis_to_dim_map[l2] = Replicated

\* C4: ResoluteOutputPartialDimension returns exactly the concrete dimensions
\* of the entries whose label is absent from the output notation, each as
\* often as such entries have it, and never a -1.
C4_PartialOfAbsentLabels ==
  (call = "ResoluteOutputPartialDimension" /\ pc = "done") =>
    \A d \in MeshDims :
      Cardinality({p \in 1 .. Len(partial_on_dims) : partial_on_dims[p] = d})
        = IF d > Replicated
            THEN Cardinality({label \in DOMAIN in_axis_to_dim_map :
                                /\ ~Find(out_axis, label)
                                /\ in_axis_to_dim_map[label] = d})
            ELSE 0

\* C5: a call of ShardingMergeForTensors whose input gives some label two
\* different concrete dimensions never returns a map.
C5_ConflictNeverReturns ==
  (call = "ShardingMergeForTensors" /\ LabelConflict) => pc # "done"

\* C6: ShardingMergeForAxis returns d1 when d1 = d2, and the concrete one
\* when exactly one of d1, d2 is -1, in either argument order.
C6_MergeForAxisValue ==
  (/\ call = "ShardingMergeForAxis"
   /\ pc \in {"done", "thrown"}
   /\ (mesh_dim1 = mesh_dim2 \/ mesh_dim1 = Replicated \/ mesh_dim2 = Replicated)) =>
    /\ pc = "done"
    /\ ret_dim = IF mesh_dim1 = mesh_dim2 THEN mesh_dim1
                 ELSE IF mesh_dim1 = Replicated THEN mesh_dim2 ELSE mesh_dim1

\* C6 witness: a replicated first argument merged with a sharded second one
\* has returned the sharded one.
C6_Witness ==
  /\ call = "ShardingMergeForAxis" /\ pc = "done"
  /\ mesh_dim1 = Replicated /\ mesh_dim2 > Replicated
  /\ ret_dim = mesh_dim2

\* C7 as stated: for concrete d1 # d2 ShardingMergeForAxis never returns and
\* fails with an error of kind Conflict naming the axis and both dimensions.
C7_ThrowsConflict ==
  (/\ call = "ShardingMergeForAxis"
   /\ pc \in {"done", "thrown"}
   /\ mesh_dim1 > Replicated /\ mesh_dim2 > Replicated /\ mesh_dim1 # mesh_dim2) =>
    /\ pc = "thrown"
    /\ exception.code = "Conflict"
    /\ exception.axis = axis
    /\ exception.dims = <<mesh_dim1, mesh_dim2>>

\* C7 amended: for concrete d1 # d2 ShardingMergeForAxis never returns and
\* fails with an error of kind Unimplemented naming the axis and both
\* dimensions.
C7_ThrowsUnimplemented ==
  (/\ call = "ShardingMergeForAxis"
   /\ pc \in {"done", "thrown"}
   /\ mesh_dim1 > Replicated /\ mesh_dim2 > Replicated /\ mesh_dim1 # mesh_dim2) =>
    /\ pc = "thrown"
    /\ exception.code = "Unimplemented"
    /\ exception.axis = axis
    /\ exception.dims = <<mesh_dim1, mesh_dim2>>

\* C7 witness: the call with two different concrete dimensions has thrown.
C7_Witness ==
  /\ call = "ShardingMergeForAxis" /\ pc = "thrown"
  /\ mesh_dim1 > Replicated /\ mesh_dim2 > Replicated /\ mesh_dim1 # mesh_dim2
  /\ exception.dims = <<mesh_dim1, mesh_dim2>>

\* C8: for a tensor T with pairwise distinct labels and pairwise distinct
\* concrete dimensions, merging [T, T] returns what merging [T] returns,
\* namely each label mapped to its own sharding entry.
C8_Idempotent ==
  (/\ Returned
   /\ Len(tensor_notation_to_dim_pairs) = 2
   /\ tensor_notation_to_dim_pairs[1] = tensor_notation_to_dim_pairs[2]
   /\ LET T == tensor_notation_to_dim_pairs[1]
      IN  \A p \in 1 .. Len(T[1]) : \A q \in 1 .. Len(T[1]) :
            p # q => /\ T[1][p] # T[1][q]
                     /\ (T[2][p] > Replicated => T[2][p] # T[2][q])) =>
    LET T == tensor_notation_to_dim_pairs[1]
    IN  /\ axis_to_dim_map = ShardingMergeForTensors(<<T>>).value
        /\ DOMAIN axis_to_dim_map = {T[1][p] : p \in 1 .. Len(T[1])}
        /\ \A p \in 1 .. Len(T[1]) : axis_to_dim_map[T[1][p]] = T[2][p]

\* C9: CopyTensorDistAttrForOutput returns a descriptor with the source's
\* process mesh, batch dim and dynamic dims and with annotated false, and
\* leaves the source descriptor as it was.
C9_CopyAndReset ==
  [][(call = "CopyTensorDistAttrForOutput" /\ pc = "start" /\ pc' = "done") =>
       /\ new_dist_attr'.process_mesh = src_dist_attr.process_mesh
       /\ new_dist_attr'.batch_dim = src_dist_attr.batch_dim
       /\ new_dist_attr'.dynamic_dims = src_dist_attr.dynamic_dims
       /\ new_dist_attr'.annotated = FALSE
       /\ src_dist_attr' = src_dist_attr]_vars

\* C9 witness: an annotated source with batch dim 2 and dynamic dims
\* [false, true] has been copied.
C9_Witness ==
  /\ call = "CopyTensorDistAttrForOutput" /\ pc = "done"
  /\ src_dist_attr.annotated
  /\ src_dist_attr.batch_dim = 2
  /\ src_dist_attr.dynamic_dims = <<FALSE, TRUE>>
  /\ ~new_dist_attr.annotated
  /\ new_dist_attr.batch_dim = 2

====
